---- MODULE Spec2Model ----
(***************************************************************************)
(* A model of src/main.rs: the WeakType tagged union, its numeric and      *)
(* string coercions, the "+" dispatch table, property lookup, the coercing *)
(* constructors Number() and String(), and the demo in main().             *)
(*                                                                         *)
(* Text is a tuple of one-character strings, so that parsing and           *)
(* formatting are computed character by character.  An f64 is a record:    *)
(* NaN, a signed infinity, or a signed decimal m / 10^s kept in lowest     *)
(* form (s = 0 or m not divisible by 10), with -0 distinct from +0.  For   *)
(* the short decimals used here, str::parse::<f64> followed by f64's       *)
(* Display gives back exactly that lowest form (shortest round trip).      *)
(* A panic (Option::unwrap on None) is an outcome of its own, PanicStr or  *)
(* Panic, and propagates through every caller.                             *)
(***************************************************************************)
EXTENDS Integers, Sequences, FiniteSets, TLC

\* The largest number of elements, counted over all nesting levels, of an
\* Array operand that the operations are applied to.
MaxNodes == 3

\* op: the operation applied last ("init" before any); left, right, key:
\* its operands; result: what it returned, or Panic / PanicStr; stdout: the
\* text printed so far.
VARIABLES op, left, right, key, result, stdout

vars == <<op, left, right, key, result, stdout>>

-----------------------------------------------------------------------------
(* The enum WeakType and the payload structs Array and Object.             *)

WeakType_String(s) == [kind |-> "String", str |-> s]

WeakType_Number(n) == [kind |-> "Number", num |-> n]

WeakType_Object(o) == [kind |-> "Object", obj |-> o]

WeakType_Array(a) == [kind |-> "Array", arr |-> a]

WeakType_Undefined == [kind |-> "Undefined"]

\* The outcome of an operation that panicked instead of returning a String.
PanicStr == <<"panic">>

\* The outcome of an operation that panicked instead of returning a WeakType.
Panic == [kind |-> "Panic"]

-----------------------------------------------------------------------------
(* f64: the values, addition, Display and FromStr.                         *)

NAN == [t |-> "nan", neg |-> FALSE, m |-> 0, s |-> 0]

Infinity(neg) == [t |-> "inf", neg |-> neg, m |-> 0, s |-> 0]

RECURSIVE Pow10(_)
Pow10(k) == IF k = 0 THEN 1 ELSE 10 * Pow10(k - 1)

\* The lowest form of the decimal m / 10^s (s may be negative).
RECURSIVE Lowest(_, _, _)
Lowest(neg, m, s) ==
    IF s < 0 THEN Lowest(neg, m * Pow10(0 - s), 0)
    ELSE IF m = 0 THEN [t |-> "fin", neg |-> neg, m |-> 0, s |-> 0]
    ELSE IF s > 0 /\ m % 10 = 0 THEN Lowest(neg, m \div 10, s - 1)
    ELSE [t |-> "fin", neg |-> neg, m |-> m, s |-> s]

\* f64::from(i32)
f64_from_i32(i) == Lowest(i < 0, IF i < 0 THEN 0 - i ELSE i, 0)

is_nan(x) == x.t = "nan"

\* IEEE 754 addition, round to nearest.  The finite case is the exact sum,
\* which is what f64 gives when both operands and the sum are short binary
\* fractions (multiples of 1/2, 1/4, ... of small magnitude), as all the
\* finite operands added in this model are.
f64_add(a, b) ==
    IF is_nan(a) \/ is_nan(b) THEN NAN
    ELSE IF a.t = "inf" /\ b.t = "inf" THEN (IF a.neg = b.neg THEN a ELSE NAN)
    ELSE IF a.t = "inf" THEN a
    ELSE IF b.t = "inf" THEN b
    ELSE LET sc == IF a.s > b.s THEN a.s ELSE b.s
             sa == (IF a.neg THEN 0 - a.m ELSE a.m) * Pow10(sc - a.s)
             sb == (IF b.neg THEN 0 - b.m ELSE b.m) * Pow10(sc - b.s)
             sum == sa + sb
         IN  IF sum = 0 THEN Lowest(a.neg /\ b.neg, 0, 0)
             ELSE Lowest(sum < 0, IF sum < 0 THEN 0 - sum ELSE sum, sc)

DigitChars == <<"0", "1", "2", "3", "4", "5", "6", "7", "8", "9">>

IsDigit(c) == \E i \in 1..10 : DigitChars[i] = c

DigitVal(c) == (CHOOSE i \in 1..10 : DigitChars[i] = c) - 1

\* The decimal digits of a natural number, most significant first.
RECURSIVE NatDigits(_)
NatDigits(n) ==
    IF n < 10 THEN <<DigitChars[n + 1]>>
    ELSE Append(NatDigits(n \div 10), DigitChars[(n % 10) + 1])

\* n written with exactly w digits (leading zeros), for n < 10^w.
RECURSIVE PadDigits(_, _)
PadDigits(n, w) ==
    IF w = 0 THEN <<>>
    ELSE Append(PadDigits(n \div 10, w - 1), DigitChars[(n % 10) + 1])

\* <f64 as Display>::fmt, i.e. f64::to_string: no exponent, no fractional
\* part for an integral value, "NaN" without sign, "inf" / "-inf".
f64_to_string(x) ==
    IF x.t = "nan" THEN <<"N", "a", "N">>
    ELSE LET sign == IF x.neg THEN <<"-">> ELSE <<>>
         IN  IF x.t = "inf" THEN sign \o <<"i", "n", "f">>
             ELSE IF x.s = 0 THEN sign \o NatDigits(x.m)
             ELSE sign \o NatDigits(x.m \div Pow10(x.s)) \o <<".">>
                       \o PadDigits(x.m % Pow10(x.s), x.s)

\* The length of the longest prefix of str made of decimal digits.
RECURSIVE DigitsPrefixLen(_)
DigitsPrefixLen(str) ==
    IF str = <<>> \/ ~IsDigit(Head(str)) THEN 0
    ELSE 1 + DigitsPrefixLen(Tail(str))

\* The value of a tuple of decimal digits (0 for the empty tuple).
RECURSIVE DigitsValue(_)
DigitsValue(ds) ==
    IF ds = <<>> THEN 0
    ELSE 10 * DigitsValue(SubSeq(ds, 1, Len(ds) - 1)) + DigitVal(ds[Len(ds)])

Drop(str, n) == SubSeq(str, n + 1, Len(str))

\* u8::to_ascii_lowercase on the letters of "nan", "inf" and "infinity"
\* and on the exponent marker.
to_ascii_lowercase(c) ==
    CASE c = "N" -> "n" [] c = "A" -> "a" [] c = "I" -> "i" [] c = "F" -> "f"
      [] c = "T" -> "t" [] c = "Y" -> "y" [] c = "E" -> "e" [] OTHER -> c

LowerStr(str) == [i \in 1..Len(str) |-> to_ascii_lowercase(str[i])]

ParseErr == [ok |-> FALSE, val |-> NAN]

ParseOk(x) == [ok |-> TRUE, val |-> x]

\* <f64 as FromStr>::from_str:
\*   Float  ::= Sign? ( 'inf' | 'infinity' | 'nan' | Number )
\*   Number ::= ( Digit+ | Digit+ '.' Digit* | Digit* '.' Digit+ ) Exp?
\*   Exp    ::= 'e' Sign? Digit+
\* with the words and 'e' case-insensitive; anything else is an error.
\* The value is exact for the short inputs of this model (no rounding, no
\* overflow to infinity).
f64_from_str(str) ==
    IF str = <<>> THEN ParseErr
    ELSE LET neg == str[1] = "-"
             body == IF str[1] \in {"-", "+"} THEN Tail(str) ELSE str
             nInt == DigitsPrefixLen(body)
             afterInt == Drop(body, nInt)
             hasDot == afterInt /= <<>> /\ afterInt[1] = "."
             nFrac == IF hasDot THEN DigitsPrefixLen(Tail(afterInt)) ELSE 0
             rest == IF hasDot THEN Drop(afterInt, 1 + nFrac) ELSE afterInt
             mant == DigitsValue(SubSeq(body, 1, nInt)
                                 \o (IF hasDot THEN SubSeq(afterInt, 2, 1 + nFrac) ELSE <<>>))
             hasExp == rest /= <<>> /\ to_ascii_lowercase(rest[1]) = "e"
             expSigned == hasExp /\ Len(rest) >= 2 /\ rest[2] \in {"-", "+"}
             expDigits == IF expSigned THEN Drop(rest, 2) ELSE Drop(rest, 1)
             expOk == expDigits /= <<>> /\ DigitsPrefixLen(expDigits) = Len(expDigits)
             expVal == IF expSigned /\ rest[2] = "-" THEN 0 - DigitsValue(expDigits)
                       ELSE DigitsValue(expDigits)
             low == LowerStr(body)
         IN  IF body = <<>> THEN ParseErr
             ELSE IF nInt + nFrac > 0 /\ rest = <<>> THEN ParseOk(Lowest(neg, mant, nFrac))
             ELSE IF nInt + nFrac > 0 /\ hasExp /\ expOk
                  THEN ParseOk(Lowest(neg, mant, nFrac - expVal))
             ELSE IF nInt + nFrac > 0 THEN ParseErr
             ELSE IF low = <<"n", "a", "n">> THEN ParseOk(NAN)
             ELSE IF low = <<"i", "n", "f">> THEN ParseOk(Infinity(neg))
             ELSE IF low = <<"i", "n", "f", "i", "n", "i", "t", "y">> THEN ParseOk(Infinity(neg))
             ELSE ParseErr

\* Result::unwrap_or
unwrap_or(r, default) == IF r.ok THEN r.val ELSE default

-----------------------------------------------------------------------------
(* impl WeakType: the coercions.                                           *)

ObjectStr == <<"[", "o", "b", "j", "e", "c", "t", " ", "O", "b", "j", "e", "c", "t", "]">>

UndefinedStr == <<"u", "n", "d", "e", "f", "i", "n", "e", "d">>

Separator == <<",", " ">>

\* String + &str where either side may have panicked before the call.
Concat(a, b) == IF a = PanicStr \/ b = PanicStr THEN PanicStr ELSE a \o b

\* WeakType::coerce_to_number
coerce_to_number(self) ==
    CASE self.kind = "String" -> unwrap_or(f64_from_str(self.str), NAN)
      [] self.kind = "Number" -> self.num
      [] self.kind = "Object" -> NAN
      [] self.kind = "Undefined" -> NAN
      [] self.kind = "Array" -> NAN

RECURSIVE coerce_to_string(_), reducer(_), reduce(_, _)

\* reduce as it would be with the separator "," in place of ", ".
RECURSIVE reduce_comma(_, _)
reduce_comma(prev, rest) ==
    IF rest = <<>> THEN prev
    ELSE reduce_comma(Concat(Concat(prev, <<",">>), reducer(Head(rest))), Tail(rest))

\* Iterator::reduce(|prev, cur| prev + ", " + &cur) over the elements not
\* yet consumed, each mapped by reducer as it is pulled.
reduce(prev, rest) ==
    IF rest = <<>> THEN prev
    ELSE reduce(Concat(Concat(prev, Separator), reducer(Head(rest))), Tail(rest))

\* The inner fn reducer of coerce_to_string: Option::unwrap panics on the
\* None that reduce returns for an empty iterator.
reducer(val) ==
    CASE val.kind = "String" -> coerce_to_string(val)
      [] val.kind = "Number" -> coerce_to_string(val)
      [] val.kind = "Object" -> coerce_to_string(val)
      [] val.kind = "Array" ->
            IF val.arr = <<>> THEN PanicStr
            ELSE reduce(reducer(Head(val.arr)), Tail(val.arr))
      [] val.kind = "Undefined" -> coerce_to_string(val)

\* WeakType::coerce_to_string
coerce_to_string(self) ==
    CASE self.kind = "String" -> self.str
      [] self.kind = "Number" -> f64_to_string(self.num)
      [] self.kind = "Object" -> ObjectStr
      [] self.kind = "Undefined" -> UndefinedStr
      [] self.kind = "Array" -> reducer(self)

\* WeakType::from(String), with a panic of the argument's evaluation
\* propagating instead of a value being built.
from_String(s) == IF s = PanicStr THEN Panic ELSE WeakType_String(s)

\* WeakType::from(f64)
from_f64(x) == WeakType_Number(x)

-----------------------------------------------------------------------------
(* impl Add for &WeakType, one operator per arm of the outer match.        *)

\* add_String as it would be if a Number on the right were always appended
\* as text, without the attempt to parse the left String.
add_String_always_concat(self, rhs) ==
    CASE rhs.kind = "String" -> from_String(Concat(self.str, rhs.str))
      [] rhs.kind = "Undefined" -> from_String(Concat(self.str, coerce_to_string(rhs)))
      [] rhs.kind = "Object" -> from_String(Concat(self.str, coerce_to_string(rhs)))
      [] rhs.kind = "Number" -> from_String(Concat(self.str, f64_to_string(rhs.num)))
      [] rhs.kind = "Array" ->
            from_String(Concat(coerce_to_string(self), coerce_to_string(rhs)))

add_String(self, rhs) ==
    CASE rhs.kind = "String" -> from_String(Concat(self.str, rhs.str))
      [] rhs.kind = "Undefined" -> from_String(Concat(self.str, coerce_to_string(rhs)))
      [] rhs.kind = "Object" -> from_String(Concat(self.str, coerce_to_string(rhs)))
      [] rhs.kind = "Number" ->
            LET self_coerced == coerce_to_number(self)
            IN  IF is_nan(self_coerced)
                THEN from_String(Concat(self.str, f64_to_string(rhs.num)))
                ELSE from_f64(f64_add(self_coerced, rhs.num))
      [] rhs.kind = "Array" ->
            from_String(Concat(coerce_to_string(self), coerce_to_string(rhs)))

add_Number(self, rhs) ==
    LET rhs_coerced == coerce_to_number(rhs)
    IN  IF is_nan(rhs_coerced)
        THEN from_String(Concat(coerce_to_string(self), coerce_to_string(rhs)))
        ELSE from_f64(f64_add(self.num, rhs_coerced))

\* add_Object as it would be if the Number arm concatenated like the other
\* arms, making Object + Number agree with Number + Object.
add_Object_symmetric(self, rhs) ==
    CASE rhs.kind = "String" -> from_String(Concat(coerce_to_string(self), rhs.str))
      [] OTHER -> from_String(Concat(coerce_to_string(self), coerce_to_string(rhs)))

add_Object(self, rhs) ==
    CASE rhs.kind = "String" -> from_String(Concat(coerce_to_string(self), rhs.str))
      [] rhs.kind = "Number" -> from_f64(NAN)
      [] rhs.kind = "Object" ->
            from_String(Concat(coerce_to_string(self), coerce_to_string(rhs)))
      [] rhs.kind = "Undefined" ->
            from_String(Concat(coerce_to_string(self), coerce_to_string(rhs)))
      [] rhs.kind = "Array" ->
            from_String(Concat(coerce_to_string(self), coerce_to_string(rhs)))

add_Undefined(self, rhs) ==
    CASE rhs.kind = "String" -> from_String(Concat(coerce_to_string(self), rhs.str))
      [] rhs.kind = "Number" -> from_f64(NAN)
      [] rhs.kind = "Undefined" -> from_f64(NAN)
      [] rhs.kind = "Object" ->
            from_String(Concat(coerce_to_string(self), coerce_to_string(rhs)))
      [] rhs.kind = "Array" ->
            from_String(Concat(coerce_to_string(self), coerce_to_string(rhs)))

add_Array(self, rhs) ==
    from_String(Concat(coerce_to_string(self), coerce_to_string(rhs)))

\* <&WeakType as Add>::add
add(self, rhs) ==
    CASE self.kind = "String" -> add_String(self, rhs)
      [] self.kind = "Number" -> add_Number(self, rhs)
      [] self.kind = "Object" -> add_Object(self, rhs)
      [] self.kind = "Undefined" -> add_Undefined(self, rhs)
      [] self.kind = "Array" -> add_Array(self, rhs)

-----------------------------------------------------------------------------
(* impl Index<&str> for WeakType.  The reference returned is modelled by   *)
(* the value it points to.                                                 *)

\* index as it would be if every container that is not an Object returned
\* itself, as the Undefined arm does.
index_returns_self(self, k) ==
    CASE self.kind = "Object" ->
            IF k \in DOMAIN self.obj THEN self.obj[k] ELSE WeakType_Undefined
      [] OTHER -> self

index(self, k) ==
    CASE self.kind = "String" -> WeakType_Undefined
      [] self.kind = "Number" -> WeakType_Undefined
      [] self.kind = "Object" ->
            IF k \in DOMAIN self.obj THEN self.obj[k] ELSE WeakType_Undefined
      [] self.kind = "Undefined" -> self
      [] self.kind = "Array" -> WeakType_Undefined

-----------------------------------------------------------------------------
(* IntoWeakType, Array::from, Object::from_values and the coercing         *)
(* constructors Number() and String().                                     *)

into_f64(x) == WeakType_Number(x)

into_i32(i) == WeakType_Number(f64_from_i32(i))

into_str(s) == WeakType_String(s)

Array_from(arr) == WeakType_Array(arr)

Object_from_values(map) == WeakType_Object(map)

\* fn Number(n: impl IntoWeakType), applied to the value n.into()
Number(n) == from_f64(coerce_to_number(n))

\* fn String(s: impl IntoWeakType), applied to the value s.into()
String(s) == from_String(coerce_to_string(s))

\* <WeakType as Display>::fmt
fmt(self) == coerce_to_string(self)

-----------------------------------------------------------------------------
(* The values the operations are applied to.                               *)

TextSamples ==
    { <<>>,
      <<"5">>,
      <<"1", ".", "5">>,
      <<".", "5">>,
      <<"5", ".">>,
      <<"+", "1">>,
      <<"-", "0">>,
      <<"1", "e", "1">>,
      <<"N", "a", "N">>,
      <<"-", "i", "n", "f">>,
      <<"a", "b", "c">>,
      <<" ", "5">>,
      <<"-">> }

\* Finite samples are multiples of 1/4, so every sum formed is exact in f64.
NumberSamples ==
    { NAN, Infinity(FALSE), Infinity(TRUE),
      Lowest(FALSE, 0, 0), Lowest(TRUE, 0, 0), Lowest(FALSE, 1, 0),
      Lowest(FALSE, 5, 0), Lowest(FALSE, 15, 1), Lowest(TRUE, 15, 1),
      Lowest(FALSE, 25, 2) }

ObjectKeys == {"Earth", "Mars"}

IndexKeys == {"Earth", "Mars", "Venus"}

ObjectValues ==
    { WeakType_Number(Lowest(FALSE, 1, 0)), WeakType_Undefined, WeakType_Array(<<>>) }

\* Every HashMap from some of ObjectKeys to ObjectValues.
ObjectSamples ==
    UNION { [ks -> ObjectValues] : ks \in SUBSET ObjectKeys }

Scalars ==
    { WeakType_String(s) : s \in TextSamples }
        \cup { WeakType_Number(n) : n \in NumberSamples }
        \cup { WeakType_Object(o) : o \in ObjectSamples }
        \cup { WeakType_Undefined }

\* The non-Array elements that the Array operands are built from.
ArrayLeaves ==
    { WeakType_String(<<"5">>), WeakType_Number(Lowest(FALSE, 15, 1)),
      WeakType_Object([k \in {"Earth"} |-> WeakType_Undefined]), WeakType_Undefined }

\* Every Vec<WeakType> over ArrayLeaves and nested Arrays that holds
\* exactly n elements counted over all nesting levels.
RECURSIVE VecsWithNodes(_)
VecsWithNodes(n) ==
    IF n = 0 THEN { <<>> }
    ELSE { <<e>> \o rest : e \in ArrayLeaves, rest \in VecsWithNodes(n - 1) }
         \cup UNION { { <<WeakType_Array(inner)>> \o rest :
                          inner \in VecsWithNodes(k), rest \in VecsWithNodes(n - 1 - k) } :
                      k \in 0..(n - 1) }

ValuesWithNodes(n) ==
    IF n = 0 THEN Scalars \cup { WeakType_Array(<<>>) }
    ELSE { WeakType_Array(a) : a \in VecsWithNodes(n) }

ValuesUpTo(n) == UNION { ValuesWithNodes(k) : k \in 0..n }

Values == ValuesUpTo(MaxNodes)

\* The operand pairs of add: together at most MaxNodes Array elements.
AddOperands ==
    UNION { ValuesWithNodes(i) \X ValuesUpTo(MaxNodes - i) : i \in 0..MaxNodes }

-----------------------------------------------------------------------------
(* The demo of main().                                                     *)

main_obj ==
    Object_from_values(
        [k \in {"Mercury", "Venus", "Earth", "Mars"} |->
            CASE k = "Mercury" -> Number(into_f64(Lowest(FALSE, 4, 1)))
              [] k = "Venus" -> Number(into_f64(Lowest(FALSE, 7, 1)))
              [] k = "Earth" -> Number(into_f64(Lowest(FALSE, 10, 1)))
              [] k = "Mars" -> Number(into_f64(Lowest(FALSE, 15, 1)))])

main_arr ==
    Array_from(<< String(into_i32(1)),
                  Number(into_str(<<"5">>)),
                  Array_from(<<main_obj, String(into_i32(20))>>) >>)

-----------------------------------------------------------------------------
(* The state machine: one operation is applied to operands drawn from the  *)
(* sample values, and its outcome recorded.                                *)

Init ==
    /\ op = "init"
    /\ left = WeakType_Undefined
    /\ right = WeakType_Undefined
    /\ key = ""
    /\ result = WeakType_Undefined
    /\ stdout = <<>>

\* &left + &right
Add ==
    /\ op = "init"
    /\ \E p \in AddOperands :
          /\ left' = p[1]
          /\ right' = p[2]
          /\ result' = add(p[1], p[2])
    /\ op' = "add"
    /\ UNCHANGED <<key, stdout>>

\* left[key]
Index ==
    /\ op = "init"
    /\ \E v \in Values, k \in IndexKeys :
          /\ left' = v
          /\ key' = k
          /\ result' = index(v, k)
    /\ op' = "index"
    /\ UNCHANGED <<right, stdout>>

\* left.coerce_to_number()
CoerceToNumber ==
    /\ op = "init"
    /\ \E v \in Values :
          /\ left' = v
          /\ result' = coerce_to_number(v)
    /\ op' = "coerce_to_number"
    /\ UNCHANGED <<right, key, stdout>>

\* left.coerce_to_string()
CoerceToString ==
    /\ op = "init"
    /\ \E v \in Values :
          /\ left' = v
          /\ result' = coerce_to_string(v)
    /\ op' = "coerce_to_string"
    /\ UNCHANGED <<right, key, stdout>>

\* Number(left)
CallNumber ==
    /\ op = "init"
    /\ \E v \in Values :
          /\ left' = v
          /\ result' = Number(v)
    /\ op' = "Number"
    /\ UNCHANGED <<right, key, stdout>>

\* String(left)
CallString ==
    /\ op = "init"
    /\ \E v \in Values :
          /\ left' = v
          /\ result' = String(v)
    /\ op' = "String"
    /\ UNCHANGED <<right, key, stdout>>

\* main(): println!("{}", &arr + &obj); a panic prints nothing to stdout.
Main ==
    /\ op = "init"
    /\ left' = main_arr
    /\ right' = main_obj
    /\ result' = add(main_arr, main_obj)
    /\ stdout' = IF result' = Panic \/ fmt(result') = PanicStr THEN stdout
                 ELSE stdout \o fmt(result') \o <<"\n">>
    /\ op' = "main"
    /\ UNCHANGED key

Next ==
    \/ Add
    \/ Index
    \/ CoerceToNumber
    \/ CoerceToString
    \/ CallNumber
    \/ CallString
    \/ Main

Spec == Init /\ [][Next]_vars

-----------------------------------------------------------------------------
(* The properties checked of the model.                                    *)

IsF64(x) == x.t \in {"nan", "inf", "fin"}

\* A String that was returned: a tuple of single characters.
IsText(s) == s /= PanicStr

\* C1: adding a Number to an Object is the Number NaN, whatever the two
\* hold, while adding an Object to a Number is the String made of the
\* Number's text followed by "[object Object]".
C1_ObjectNumberOrderingsDisagree ==
    op = "add" =>
        /\ (left.kind = "Object" /\ right.kind = "Number")
              => result = WeakType_Number(NAN)
        /\ (left.kind = "Number" /\ right.kind = "Object")
              => result = WeakType_String(coerce_to_string(left) \o ObjectStr)

\* C1 witness: 1.5 + {Earth: [], ...} has been computed and is the String
\* "1.5[object Object]".
C1_Witness ==
    /\ op = "add"
    /\ left = WeakType_Number(Lowest(FALSE, 15, 1))
    /\ right.kind = "Object"
    /\ "Earth" \in DOMAIN right.obj
    /\ right.obj["Earth"] = WeakType_Array(<<>>)
    /\ result = WeakType_String(<<"1", ".", "5", "[", "o", "b", "j", "e", "c", "t", " ", "O", "b", "j", "e", "c", "t", "]">>)

\* C2: with an Array on the left, add returns the String made of the text
\* of the left operand followed by the text of the right operand, for every
\* Array and every right operand.
C2_ArrayLeftAlwaysString ==
    (op = "add" /\ left.kind = "Array") =>
        /\ result.kind = "String"
        /\ result.str = coerce_to_string(left) \o coerce_to_string(right)

\* C2, on the operands whose text exists: the same statement where neither
\* coercion panics.
C2_ArrayLeftStringUnlessPanic ==
    (op = "add" /\ left.kind = "Array") =>
        IF IsText(coerce_to_string(left)) /\ IsText(coerce_to_string(right))
        THEN result = WeakType_String(coerce_to_string(left) \o coerce_to_string(right))
        ELSE result = Panic

\* The text that main() is documented to print.
DemoText ==
    <<"1", ",", " ", "5", ",", " ", "[", "o", "b", "j", "e", "c", "t", " ", "O", "b", "j", "e", "c", "t">>
        \o <<"]", ",", " ", "2", "0", "[", "o", "b", "j", "e", "c", "t", " ", "O", "b", "j", "e", "c", "t", "]">>

\* C3: the demo's sum of its Array and its Object is the String
\* "1, 5, [object Object], 20[object Object]", and that line is printed.
C3_DemoText ==
    op = "main" =>
        /\ result = WeakType_String(DemoText)
        /\ stdout = DemoText \o <<"\n">>

\* C3 witness: main() has run on the Array of three elements, the third an
\* Array holding the Object, and has printed a line.
C3_Witness ==
    /\ op = "main"
    /\ left.kind = "Array"
    /\ Len(left.arr) = 3
    /\ left.arr[1] = WeakType_String(<<"1">>)
    /\ left.arr[2] = WeakType_Number(Lowest(FALSE, 5, 0))
    /\ left.arr[3].kind = "Array"
    /\ left.arr[3].arr[1] = right
    /\ DOMAIN right.obj = {"Mercury", "Venus", "Earth", "Mars"}
    /\ stdout /= <<>>

\* C4: coerce_to_number always returns an f64 and coerce_to_string always
\* returns a String, for every value, empty and nested empty Arrays
\* included.
C4_CoercionsNeverFail ==
    /\ op = "coerce_to_number" => IsF64(result)
    /\ op = "coerce_to_string" => IsText(result)

\* C4, the half that the code keeps: coerce_to_number returns an f64 for
\* every value, and coerce_to_string panics only on an Array.
C4_NumberCoercionTotal ==
    /\ op = "coerce_to_number" => IsF64(result)
    /\ (op = "coerce_to_string" /\ left.kind /= "Array") => IsText(result)

\* C5: with a Number on the left, add is decided by coerce_to_number of
\* the right operand alone: where that is NaN the result is the String of
\* the two texts, and otherwise the Number left + coerce_to_number(right).
C5_NumberLeftBranchesOnRight ==
    (op = "add" /\ left.kind = "Number") =>
        IF is_nan(coerce_to_number(right))
        THEN /\ result.kind = "String"
             /\ result.str = coerce_to_string(left) \o coerce_to_string(right)
        ELSE result = WeakType_Number(f64_add(left.num, coerce_to_number(right)))

\* C5, on the operands whose text exists: the same statement where the
\* right operand's coerce_to_string does not panic.
C5_NumberLeftUnlessPanic ==
    (op = "add" /\ left.kind = "Number") =>
        IF ~is_nan(coerce_to_number(right))
        THEN result = WeakType_Number(f64_add(left.num, coerce_to_number(right)))
        ELSE IF IsText(coerce_to_string(right))
        THEN result = WeakType_String(coerce_to_string(left) \o coerce_to_string(right))
        ELSE result = Panic

\* C6: with a String a on the left: a String right b gives the String a b;
\* a Number right r gives the Number parse(a) + r where a parses to a
\* number that is not NaN, and the String a followed by r's text where it
\* does not; and no String, Object, Undefined or Array right operand gives
\* a Number.
C6_StringLeft ==
    (op = "add" /\ left.kind = "String") =>
        /\ right.kind = "String" => result = WeakType_String(left.str \o right.str)
        /\ right.kind = "Number" =>
              LET parsed == f64_from_str(left.str)
              IN  IF parsed.ok /\ ~is_nan(parsed.val)
                  THEN result = WeakType_Number(f64_add(parsed.val, right.num))
                  ELSE result = WeakType_String(left.str \o f64_to_string(right.num))
        /\ right.kind \in {"String", "Object", "Undefined", "Array"}
              => result.kind /= "Number"

\* C6 witness: "1e1" + 1.5 has been computed and is the Number 11.5.
C6_Witness ==
    /\ op = "add"
    /\ left = WeakType_String(<<"1", "e", "1">>)
    /\ right = WeakType_Number(Lowest(FALSE, 15, 1))
    /\ result = WeakType_Number(Lowest(FALSE, 115, 1))

\* C7: with an Object or Undefined on the left, add is the Number NaN
\* exactly for Object + Number, Undefined + Number and Undefined +
\* Undefined, and for every other right operand the String of the two
\* texts.
C7_ObjectUndefinedLeft ==
    (op = "add" /\ left.kind \in {"Object", "Undefined"}) =>
        IF \/ right.kind = "Number"
           \/ (left.kind = "Undefined" /\ right.kind = "Undefined")
        THEN result = WeakType_Number(NAN)
        ELSE /\ result.kind = "String"
             /\ result.str = coerce_to_string(left) \o coerce_to_string(right)

\* C7, on the operands whose text exists: the same statement where the
\* right operand's coerce_to_string does not panic.
C7_ObjectUndefinedLeftUnlessPanic ==
    (op = "add" /\ left.kind \in {"Object", "Undefined"}) =>
        IF \/ right.kind = "Number"
           \/ (left.kind = "Undefined" /\ right.kind = "Undefined")
        THEN result = WeakType_Number(NAN)
        ELSE IF IsText(coerce_to_string(right))
        THEN result = WeakType_String(coerce_to_string(left) \o coerce_to_string(right))
        ELSE result = Panic

\* C8: index returns the stored value where the container is an Object
\* holding the key, and Undefined in every other case; it never panics.
C8_IndexStoredOrUndefined ==
    op = "index" =>
        IF left.kind = "Object" /\ key \in DOMAIN left.obj
        THEN result = left.obj[key]
        ELSE result = WeakType_Undefined

\* C8 witness: an Object holding an Array under "Mars" and nothing under
\* "Earth" has been indexed by "Mars" and the Array returned.
C8_Witness ==
    /\ op = "index"
    /\ left.kind = "Object"
    /\ DOMAIN left.obj = {"Mars"}
    /\ key = "Mars"
    /\ result = WeakType_Array(<<>>)

\* C9: String(v) is a String whose coerce_to_string is the text
\* coerce_to_string(v), for every value v.
C9_StringCoercionIdempotent ==
    op = "String" =>
        /\ result.kind = "String"
        /\ coerce_to_string(result) = coerce_to_string(left)

\* C9, on the values whose text exists: re-coercing the String built from
\* a text that coerce_to_string returned gives that text back.
C9_IdempotentUnlessPanic ==
    op = "String" =>
        IF IsText(coerce_to_string(left))
        THEN result.kind = "String" /\ coerce_to_string(result) = coerce_to_string(left)
        ELSE result = Panic

\* The elements of a value that are not Arrays, depth first, left to right.
RECURSIVE LeavesOf(_), LeavesOfAll(_)
LeavesOf(v) == IF v.kind = "Array" THEN LeavesOfAll(v.arr) ELSE <<v>>

LeavesOfAll(vs) ==
    IF vs = <<>> THEN <<>> ELSE LeavesOf(Head(vs)) \o LeavesOfAll(Tail(vs))

\* The documented text of a value that is not an Array.
LeafText(v) ==
    CASE v.kind = "String" -> v.str
      [] v.kind = "Number" -> f64_to_string(v.num)
      [] v.kind = "Object" -> <<"[", "o", "b", "j", "e", "c", "t", " ", "O", "b", "j", "e", "c", "t", "]">>
      [] v.kind = "Undefined" -> <<"u", "n", "d", "e", "f", "i", "n", "e", "d">>

\* The texts of vs joined by ", " (the empty text for no element).
RECURSIVE JoinLeafTexts(_)
JoinLeafTexts(vs) ==
    IF vs = <<>> THEN <<>>
    ELSE IF Len(vs) = 1 THEN LeafText(vs[1])
    ELSE LeafText(vs[1]) \o <<",", " ">> \o JoinLeafTexts(Tail(vs))

\* C10: coerce_to_string of an Array is the texts of its leaves, depth
\* first and left to right, joined by ", ", and so equals coerce_to_string
\* of the flat Array of those leaves.
C10_ArrayTextIsJoinedLeaves ==
    (op = "coerce_to_string" /\ left.kind = "Array") =>
        /\ result = JoinLeafTexts(LeavesOf(left))
        /\ result = coerce_to_string(WeakType_Array(LeavesOf(left)))

\* An Array with no element, at any nesting level.
RECURSIVE HasEmptyArray(_)
HasEmptyArray(v) ==
    /\ v.kind = "Array"
    /\ (v.arr = <<>> \/ \E i \in 1..Len(v.arr) : HasEmptyArray(v.arr[i]))

\* C10, on the Arrays that hold no empty Array: the same statement; and
\* every Array that holds one panics.
C10_JoinedLeavesUnlessEmpty ==
    (op = "coerce_to_string" /\ left.kind = "Array") =>
        IF HasEmptyArray(left) THEN result = PanicStr
        ELSE /\ result = JoinLeafTexts(LeavesOf(left))
             /\ result = coerce_to_string(WeakType_Array(LeavesOf(left)))

====
